---- MODULE Spec2Model ----
(***************************************************************************)
(* Model of the manifest schema registry (manifests.go) and of the piddle  *)
(* manifest schema (manifest/piddle/manifest.go).                          *)
(*                                                                         *)
(* Strings that carry media types are sequences of lexemes: each lexeme is *)
(* a literal piece of the string, either a run of RFC 2045 token           *)
(* characters ("application", "json", ...) or one of the separators "/",   *)
(* ";", "=", " ".  The string a sequence stands for is the concatenation   *)
(* of its lexemes; the empty string is <<>>.                               *)
(***************************************************************************)
EXTENDS Integers, Sequences, FiniteSets, TLC

VARIABLES
    mappings,   \* manifests.go: var mappings (media type -> UnmarshalFunc)
    ret,        \* the last call: its arguments and what it returned
    dm,         \* the DeserializedManifest value the caller holds
    origin      \* <<m>> while dm is as FromStruct(m) returned it, else <<>>

vars == <<mappings, ret, dm, origin>>

\* an error value: kind "nil" is Go's nil error; a and b are the strings the
\* message names
Err(kind, a, b) == [kind |-> kind, a |-> a, b |-> b]
NoErr == Err("nil", <<>>, <<>>)

-----------------------------------------------------------------------------
(* Bounds of the model. *)

\* longest media-type part (before any ';') of a generated header, in lexemes
MaxBaseLen == 3
\* most layers of a generated structured manifest
MaxLayers == 2
\* most members of a generated wire document
MaxMembers == 3

-----------------------------------------------------------------------------
(* Strings as lexeme sequences. *)

Separators == {"/", ";", "=", " "}

IsTokenLexeme(x) == x \notin Separators

\* strings.ToLower on one lexeme
LowerLexeme(x) ==
    CASE x = "Application" -> "application"
      [] x = "Charset" -> "charset"
      [] OTHER -> x

\* strings.ToLower
ToLower(s) == [i \in 1..Len(s) |-> LowerLexeme(s[i])]

RECURSIVE TrimLeft(_)
\* strings.TrimLeftFunc(s, unicode.IsSpace)
TrimLeft(s) == IF s # <<>> /\ Head(s) = " " THEN TrimLeft(Tail(s)) ELSE s

RECURSIVE TrimRight(_)
TrimRight(s) ==
    IF s # <<>> /\ s[Len(s)] = " " THEN TrimRight(SubSeq(s, 1, Len(s) - 1)) ELSE s

\* strings.TrimSpace
TrimSpace(s) == TrimRight(TrimLeft(s))

RECURSIVE IndexOf(_, _, _)
\* position of the first x in s at or after i, 0 when there is none
IndexOf(s, x, i) ==
    IF i > Len(s) THEN 0 ELSE IF s[i] = x THEN i ELSE IndexOf(s, x, i + 1)

\* base, _, _ := strings.Cut(v, ";")
CutBase(v) ==
    LET i == IndexOf(v, ";", 1) IN IF i = 0 THEN v ELSE SubSeq(v, 1, i - 1)

RECURSIVE TokenLen(_, _)
\* length of the longest prefix of s after position i made of token characters
TokenLen(s, i) ==
    IF i < Len(s) /\ IsTokenLexeme(s[i + 1]) THEN TokenLen(s, i + 1) ELSE i

\* mime.consumeToken: <<token, rest>>
consumeToken(s) ==
    LET n == TokenLen(s, 0) IN <<SubSeq(s, 1, n), SubSeq(s, n + 1, Len(s))>>

MimeErr(msg) == Err("mime", <<msg>>, <<>>)

\* mime.checkMediaTypeDisposition: NoErr, or the error
checkMediaTypeDisposition(s) ==
    LET t == consumeToken(s) IN
    IF t[1] = <<>> THEN MimeErr("no media type")
    ELSE IF t[2] = <<>> THEN NoErr
    ELSE IF Head(t[2]) # "/" THEN MimeErr("expected slash after first token")
    ELSE LET u == consumeToken(Tail(t[2])) IN
         IF u[1] = <<>> THEN MimeErr("expected token after slash")
         ELSE IF u[2] # <<>>
              THEN MimeErr("unexpected content after media subtype")
              ELSE NoErr

\* mime.consumeMediaParam: <<param, value, rest>>; param = <<>> when v does not
\* start with a parameter (values are tokens: the lexemes hold no quote)
consumeMediaParam(v) ==
    LET fail == <<<<>>, <<>>, v>>
        r0 == TrimLeft(v)
    IN  IF r0 = <<>> \/ Head(r0) # ";" THEN fail
        ELSE LET p == consumeToken(TrimLeft(Tail(r0)))
                 r1 == TrimLeft(p[2])
             IN  IF p[1] = <<>> THEN fail
                 ELSE IF r1 = <<>> \/ Head(r1) # "=" THEN fail
                 ELSE LET r2 == TrimLeft(Tail(r1))
                          val == consumeToken(r2)
                      IN  IF val[1] = <<>> THEN fail
                          ELSE <<ToLower(p[1]), val[1], val[2]>>

RECURSIVE ParseParams(_, _)
\* the parameter loop of mime.ParseMediaType: NoErr, or the error.  seen is
\* the params map built so far, as a set of <<key, value>>
ParseParams(v0, seen) ==
    LET v == TrimLeft(v0) IN
    IF v = <<>> THEN NoErr
    ELSE LET c == consumeMediaParam(v) IN
         IF c[1] = <<>>
         THEN IF TrimSpace(c[3]) = <<";">> THEN NoErr
              ELSE MimeErr("invalid media parameter")
         ELSE IF \E kv \in seen : kv[1] = c[1] /\ kv[2] # c[2]
              THEN MimeErr("duplicate parameter name")
              ELSE ParseParams(c[3], seen \cup {<<c[1], c[2]>>})

\* a ParseMediaType that keeps the letter case of the media type
ParseMediaTypeKeepCase(v) ==
    IF checkMediaTypeDisposition(TrimSpace(CutBase(v))) # NoErr
    THEN [mediatype |-> <<>>, err |-> checkMediaTypeDisposition(TrimSpace(CutBase(v)))]
    ELSE [mediatype |-> TrimSpace(CutBase(v)),
          err |-> ParseParams(SubSeq(v, Len(CutBase(v)) + 1, Len(v)), {})]

\* mime.ParseMediaType: [mediatype, err]
ParseMediaType(v) ==
    LET base == CutBase(v)
        mediatype == TrimSpace(ToLower(base))
        e1 == checkMediaTypeDisposition(mediatype)
    IN  IF e1 # NoErr THEN [mediatype |-> <<>>, err |-> e1]
        ELSE LET e2 == ParseParams(SubSeq(v, Len(base) + 1, Len(v)), {})
             IN  [mediatype |-> IF e2.a = <<"duplicate parameter name">>
                                THEN <<>> ELSE mediatype,
                  err |-> e2]

-----------------------------------------------------------------------------
(* manifest/piddle/manifest.go: constants and data. *)

MediaTypeImageIndex == <<"application", "/", "vnd.piddle.image.index.v1+json">>
MediaTypeImageConfig == <<"application", "/", "vnd.piddle.image.manifest.v1+json">>
MediaTypeLayer == <<"application", "/", "vnd.piddle.image.layer.v1.tar">>
MediaTypeLayerGzip == <<"application", "/", "vnd.piddle.image.layer.v1.tar+gzip">>

\* distribution.Descriptor: the fields a manifest's JSON carries
Descriptor(mt, size, dgst) == [MediaType |-> mt, Size |-> size, Digest |-> dgst]
ZeroDescriptor == Descriptor(<<>>, 0, "")

ConfigA == Descriptor(MediaTypeImageConfig, 10, "sha256:aaa")
LayerA == Descriptor(MediaTypeLayer, 20, "sha256:bbb")
LayerB == Descriptor(MediaTypeLayerGzip, 30, "sha256:ccc")

\* piddle.Manifest (with the embedded manifest.Versioned).  A Go slice is nil or
\* a sequence: LayersNil tells a nil Layers from an empty one
Manifest(sv, mt, config, layers, layersNil) ==
    [SchemaVersion |-> sv, MediaType |-> mt, Config |-> config,
     Layers |-> layers, LayersNil |-> layersNil]
ZeroManifest == Manifest(0, <<>>, ZeroDescriptor, <<>>, TRUE)

\* piddle.DeserializedManifest
DeserializedManifest(m, canonical) == [Manifest |-> m, canonical |-> canonical]
ZeroDeserializedManifest == DeserializedManifest(ZeroManifest, <<>>)

\* a References that puts the layers first
ReferencesLayersFirst(m) == m.Layers \o <<m.Config>>

\* Manifest.References
References(m) == <<m.Config>> \o m.Layers

\* Manifest.Target
Target(m) == m.Config

-----------------------------------------------------------------------------
(* Bytes of a JSON document: a sequence of tokens.  A token is a brace, a   *)
(* comma, a run of white space, one member "key":value of the top-level     *)
(* object with the layout of its text (fmt), or a top-level literal.        *)

JV(j, s, n, d, a) == [j |-> j, s |-> s, n |-> n, d |-> d, a |-> a]
JNull == JV("null", <<>>, 0, ZeroDescriptor, <<>>)
JStr(s) == JV("str", s, 0, ZeroDescriptor, <<>>)
JNum(n) == JV("num", <<>>, n, ZeroDescriptor, <<>>)
\* a JSON object holding the non-zero fields of descriptor d (every field of
\* Descriptor is omitempty)
JDesc(d) == JV("obj", <<>>, 0, d, <<>>)
\* a JSON array of such objects
JArr(a) == JV("arr", <<>>, 0, ZeroDescriptor, a)

Tok(t, key, val, fmt) == [t |-> t, key |-> key, val |-> val, fmt |-> fmt]
LBrace == Tok("{", "", JNull, "")
RBrace == Tok("}", "", JNull, "")
Comma == Tok(",", "", JNull, "")
\* white space: " ", "\n" or "\n   "
WS(kind) == Tok("ws", "", JNull, kind)
\* the text "key":value; fmt is "compact" or "indent" (json.MarshalIndent's
\* layout: a space after the colon, nested values indented)
Member(key, val, fmt) == Tok("member", key, val, fmt)
\* a document that is one literal value
Lit(val) == Tok("lit", "", val, "")

IsWS(tok) == tok.t = "ws"

RECURSIVE Strip(_)
\* the tokens of b that are not white space
Strip(b) ==
    IF b = <<>> THEN <<>>
    ELSE IF IsWS(Head(b)) THEN Strip(Tail(b)) ELSE <<Head(b)>> \o Strip(Tail(b))

\* encoding/json checkValid: b is one JSON value
Valid(b) ==
    LET s == Strip(b)
        n == Len(s)
    IN  \/ n = 1 /\ s[1].t = "lit"
        \/ /\ n >= 2
           /\ s[1] = LBrace
           /\ s[n] = RBrace
           /\ n = 2 \/ n % 2 = 1
           /\ \A i \in 2..(n - 1) :
                IF i % 2 = 0 THEN s[i].t = "member" ELSE s[i] = Comma

\* decoding one JSON object into a Descriptor that already holds old: the
\* fields the object names are set, the others kept
MergeDescriptor(old, d) ==
    [MediaType |-> IF d.MediaType = <<>> THEN old.MediaType ELSE d.MediaType,
     Size |-> IF d.Size = 0 THEN old.Size ELSE d.Size,
     Digest |-> IF d.Digest = "" THEN old.Digest ELSE d.Digest]

TypeErr(key) == Err("json: cannot unmarshal into Go struct field", <<key>>, <<>>)

\* a decoder whose Layers field has a mistyped JSON tag: "layers" is an unknown
\* key
DecodeMemberNoLayers(m, tok) ==
    CASE tok.key = "mediaType" /\ tok.val.j = "str" ->
            [m |-> [m EXCEPT !.MediaType = tok.val.s], err |-> NoErr]
      [] tok.key = "schemaVersion" /\ tok.val.j = "num" ->
            [m |-> [m EXCEPT !.SchemaVersion = tok.val.n], err |-> NoErr]
      [] tok.key = "config" /\ tok.val.j = "obj" ->
            [m |-> [m EXCEPT !.Config = MergeDescriptor(m.Config, tok.val.d)],
             err |-> NoErr]
      [] OTHER -> [m |-> m, err |-> NoErr]

\* encoding/json: one member of the object decoded into the struct:
\* [m, err].  null leaves a field as it is (and makes a slice nil); a value of
\* the wrong JSON type is an UnmarshalTypeError and leaves the field; an
\* unknown key is skipped
DecodeMember(m, tok) ==
    LET v == tok.val
        ok(mm) == [m |-> mm, err |-> NoErr]
        bad == [m |-> m, err |-> TypeErr(tok.key)]
    IN  CASE tok.key = "schemaVersion" ->
               IF v.j = "null" THEN ok(m)
               ELSE IF v.j = "num" THEN ok([m EXCEPT !.SchemaVersion = v.n])
               ELSE bad
          [] tok.key = "mediaType" ->
               IF v.j = "null" THEN ok(m)
               ELSE IF v.j = "str" THEN ok([m EXCEPT !.MediaType = v.s])
               ELSE bad
          [] tok.key = "config" ->
               IF v.j = "null" THEN ok(m)
               ELSE IF v.j = "obj"
                    THEN ok([m EXCEPT !.Config = MergeDescriptor(m.Config, v.d)])
               ELSE bad
          [] tok.key = "layers" ->
               IF v.j = "null"
               THEN ok([m EXCEPT !.Layers = <<>>, !.LayersNil = TRUE])
               ELSE IF v.j = "arr"
                    THEN ok([m EXCEPT !.Layers = v.a, !.LayersNil = FALSE])
               ELSE bad
          [] OTHER -> ok(m)

RECURSIVE DecodeMembers(_, _, _)
\* the members of s from position i on, decoded in order; the first type
\* error is kept and decoding goes on
DecodeMembers(s, i, acc) ==
    IF i > Len(s) THEN acc
    ELSE IF s[i].t # "member" THEN DecodeMembers(s, i + 1, acc)
    ELSE LET r == DecodeMember(acc.m, s[i])
         IN  DecodeMembers(s, i + 1,
                 [m |-> r.m, err |-> IF acc.err = NoErr THEN r.err ELSE acc.err])

\* json.Unmarshal(b, &manifest) with manifest the zero Manifest: [m, err]
jsonUnmarshal(b) ==
    LET s == Strip(b) IN
    IF ~Valid(b)
    THEN [m |-> ZeroManifest, err |-> Err("json: syntax error", <<>>, <<>>)]
    ELSE IF s[1].t = "lit"
         THEN IF s[1].val.j = "null"
              THEN [m |-> ZeroManifest, err |-> NoErr]
              ELSE [m |-> ZeroManifest, err |-> TypeErr("")]
         ELSE DecodeMembers(s, 1, [m |-> ZeroManifest, err |-> NoErr])

\* json.MarshalIndent(&m, "", "   "): the fields in declaration order, mediaType
\* omitted when empty, a nil Layers as null
jsonMarshalIndent(m) ==
    LET nl == WS("\n   ")
        mt == IF m.MediaType = <<>> THEN <<>>
              ELSE <<nl, Member("mediaType", JStr(m.MediaType), "indent"), Comma>>
    IN  <<LBrace, nl, Member("schemaVersion", JNum(m.SchemaVersion), "indent"),
          Comma>>
        \o mt
        \o <<nl, Member("config", JDesc(m.Config), "indent"), Comma,
             nl, Member("layers",
                        IF m.LayersNil THEN JNull ELSE JArr(m.Layers), "indent"),
             WS("\n"), RBrace>>

\* digest.FromBytes: the digest stands for the bytes it was computed from (no
\* two byte sequences share a digest)
FromBytes(b) == <<"sha256", b>>

-----------------------------------------------------------------------------
(* manifest/piddle/manifest.go: operations. *)

\* FromStruct: [dm, err]
FromStruct(m) ==
    [dm |-> DeserializedManifest(m, jsonMarshalIndent(m)), err |-> NoErr]

\* an UnmarshalJSON that does not compare the media type
UnmarshalJSONNoCheck(d, b) ==
    IF jsonUnmarshal(b).err # NoErr
    THEN [dm |-> [d EXCEPT !.canonical = b], err |-> jsonUnmarshal(b).err]
    ELSE [dm |-> DeserializedManifest(jsonUnmarshal(b).m, b), err |-> NoErr]

\* DeserializedManifest.UnmarshalJSON on the value d: [dm, err]
UnmarshalJSON(d, b) ==
    LET r == jsonUnmarshal(b)
        stored == [d EXCEPT !.canonical = b]
    IN  IF r.err # NoErr THEN [dm |-> stored, err |-> r.err]
        ELSE IF r.m.MediaType # MediaTypeImageIndex
             THEN [dm |-> stored,
                   err |-> Err("mediaType in manifest should be not",
                               MediaTypeImageIndex, r.m.MediaType)]
             ELSE [dm |-> [stored EXCEPT !.Manifest = r.m], err |-> NoErr]

\* a MarshalJSON that does what its comment says: marshals the inner contents
\* when canonical is empty
MarshalJSONInner(d) ==
    IF Len(d.canonical) > 0 THEN [bytes |-> d.canonical, err |-> NoErr]
    ELSE [bytes |-> jsonMarshalIndent(d.Manifest), err |-> NoErr]

\* DeserializedManifest.MarshalJSON: [bytes, err]
MarshalJSON(d) ==
    IF Len(d.canonical) > 0 THEN [bytes |-> d.canonical, err |-> NoErr]
    ELSE [bytes |-> <<>>,
          err |-> Err("JSON representation not initialized in DeserializedManifest",
                      <<>>, <<>>)]

\* DeserializedManifest.Payload: [mediaType, payload, err]
Payload(d) ==
    [mediaType |-> d.Manifest.MediaType, payload |-> d.canonical, err |-> NoErr]

\* what an UnmarshalFunc returns: [ok, manifest, desc, err]; ok is FALSE
\* when the manifest returned is nil
FuncResult(ok, manifest, desc, err) ==
    [ok |-> ok, manifest |-> manifest, desc |-> desc, err |-> err]

\* a schema2Func that digests the decoded manifest marshalled again
schema2FuncRemarshal(b) ==
    IF UnmarshalJSON(ZeroDeserializedManifest, b).err # NoErr
    THEN FuncResult(FALSE, ZeroDeserializedManifest, ZeroDescriptor,
                    UnmarshalJSON(ZeroDeserializedManifest, b).err)
    ELSE FuncResult(TRUE, UnmarshalJSON(ZeroDeserializedManifest, b).dm,
                    Descriptor(MediaTypeImageIndex,
                               Len(jsonMarshalIndent(jsonUnmarshal(b).m)),
                               FromBytes(jsonMarshalIndent(jsonUnmarshal(b).m))),
                    NoErr)

\* init: schema2Func, the UnmarshalFunc registered for MediaTypeImageIndex
schema2Func(b) ==
    LET r == UnmarshalJSON(ZeroDeserializedManifest, b) IN
    IF r.err # NoErr
    THEN FuncResult(FALSE, ZeroDeserializedManifest, ZeroDescriptor, r.err)
    ELSE FuncResult(TRUE, r.dm,
                    Descriptor(MediaTypeImageIndex, Len(b), FromBytes(b)), NoErr)

-----------------------------------------------------------------------------
(* manifests.go: the schema registry. *)

\* the UnmarshalFunc values that get registered: piddle's schema2Func, and
\* another schema's function, which accepts any bytes
UnmarshalFuncs == {"schema2Func", "otherFunc"}

\* unmarshalFunc(p)
CallUnmarshalFunc(u, p) ==
    IF u = "schema2Func" THEN schema2Func(p)
    ELSE FuncResult(TRUE, DeserializedManifest(ZeroManifest, p),
                    Descriptor(<<>>, Len(p), FromBytes(p)), NoErr)

EmptyMappings == [k \in {} |-> "schema2Func"]

\* a RegisterManifestSchema that overwrites
RegisterManifestSchemaOverwrite(map, mediaType, u) ==
    [mappings |-> [k \in DOMAIN map \cup {mediaType} |->
                       IF k = mediaType THEN u ELSE map[k]],
     err |-> NoErr]

\* RegisterManifestSchema: [mappings, err]
RegisterManifestSchema(map, mediaType, u) ==
    IF mediaType \in DOMAIN map
    THEN [mappings |-> map,
          err |-> Err("manifest media type registration would overwrite existing",
                      mediaType, <<>>)]
    ELSE [mappings |-> [k \in DOMAIN map \cup {mediaType} |->
                            IF k = mediaType THEN u ELSE map[k]],
          err |-> NoErr]

\* ManifestMediaTypes, as a set (the order of the slice is the map's)
ManifestMediaTypes(map) == {t \in DOMAIN map : t # <<>>}

\* an UnmarshalManifest with no default
UnmarshalManifestNoDefault(map, ctHeader, p) ==
    IF ctHeader # <<>> /\ ParseMediaType(ctHeader).err # NoErr
    THEN [fn |-> "none",
          res |-> FuncResult(FALSE, ZeroDeserializedManifest, ZeroDescriptor,
                             ParseMediaType(ctHeader).err)]
    ELSE IF (IF ctHeader = <<>> THEN <<>> ELSE ParseMediaType(ctHeader).mediatype)
                \in DOMAIN map
         THEN [fn |-> map[IF ctHeader = <<>> THEN <<>>
                          ELSE ParseMediaType(ctHeader).mediatype],
               res |-> CallUnmarshalFunc(
                           map[IF ctHeader = <<>> THEN <<>>
                               ELSE ParseMediaType(ctHeader).mediatype], p)]
         ELSE [fn |-> "none",
               res |-> FuncResult(FALSE, ZeroDeserializedManifest, ZeroDescriptor,
                           Err("unsupported manifest media type and no default available",
                               IF ctHeader = <<>> THEN <<>>
                               ELSE ParseMediaType(ctHeader).mediatype, <<>>))]

\* UnmarshalManifest: [fn, res]; fn is the UnmarshalFunc that was called,
\* "none" when none was
UnmarshalManifest(map, ctHeader, p) ==
    LET failed(err) ==
            [fn |-> "none",
             res |-> FuncResult(FALSE, ZeroDeserializedManifest, ZeroDescriptor, err)]
        parsed == IF ctHeader # <<>> THEN ParseMediaType(ctHeader)
                  ELSE [mediatype |-> <<>>, err |-> NoErr]
        mediaType == parsed.mediatype
    IN  IF parsed.err # NoErr THEN failed(parsed.err)
        ELSE IF mediaType \in DOMAIN map
             THEN [fn |-> map[mediaType],
                   res |-> CallUnmarshalFunc(map[mediaType], p)]
        ELSE IF <<>> \in DOMAIN map
             THEN [fn |-> map[<<>>], res |-> CallUnmarshalFunc(map[<<>>], p)]
        ELSE failed(Err("unsupported manifest media type and no default available",
                        mediaType, <<>>))

-----------------------------------------------------------------------------
(* Inputs. *)

\* the sequences over S of length at most n
SeqsUpTo(S, n) == UNION {[1..k -> S] : k \in 0..n}

\* no two token lexemes side by side: a string has one lexeme sequence
Lexed(s) == \A i \in 1..(Len(s) - 1) : ~(IsTokenLexeme(s[i]) /\ IsTokenLexeme(s[i + 1]))

BaseLexemes ==
    {"application", "Application", "vnd.piddle.image.index.v1+json", "/", " "}

\* the media-type parts of the headers sent: well formed and not
HeaderBases == {s \in SeqsUpTo(BaseLexemes, MaxBaseLen) : Lexed(s)}

\* the parameter parts: none, a trailing semicolon, one parameter, a
\* parameter with no value, a parameter given twice
HeaderParams ==
    {<<>>, <<";">>,
     <<";", " ", "charset", "=", "utf-8">>,
     <<";", "Charset", "=", "utf-8">>,
     <<";", "charset">>,
     <<";", "charset", "=", "utf-8", ";", "charset", "=", "x">>}

Headers == {b \o q : b \in HeaderBases, q \in HeaderParams}

\* the keys schemas register under: the default, piddle's constant, and the
\* same type written with a capital letter
UpperImageIndex == <<"Application", "/", "vnd.piddle.image.index.v1+json">>
RegistryKeys == {<<>>, MediaTypeImageIndex, UpperImageIndex}

\* the structures handed to FromStruct
StructManifests ==
    {Manifest(1, mt, c, l, FALSE) :
        mt \in {MediaTypeImageIndex, <<"wrong">>, <<>>},
        c \in {ConfigA, ZeroDescriptor},
        l \in SeqsUpTo({LayerA, LayerB}, MaxLayers)}
    \cup {Manifest(1, mt, ConfigA, <<>>, TRUE) :
            mt \in {MediaTypeImageIndex, <<"wrong">>}}

\* the members wire documents are made of: the media type right and wrong, a
\* config, layers, a config of the wrong JSON type, a null, an unknown key
WireMembers ==
    {Member("mediaType", JStr(MediaTypeImageIndex), "compact"),
     Member("mediaType", JStr(<<"wrong">>), "compact"),
     Member("config", JDesc(ConfigA), "compact"),
     Member("layers", JArr(<<LayerA, LayerB>>), "compact"),
     Member("config", JStr(<<"x">>), "compact"),
     Member("layers", JNull, "compact"),
     Member("annotations", JNum(0), "compact")}

RECURSIVE Join(_, _)
\* the members ms with a comma, and the white space sp, between them
Join(ms, sp) ==
    IF Len(ms) <= 1 THEN ms
    ELSE <<Head(ms), Comma>> \o sp \o Join(Tail(ms), sp)

\* the documents a member list is sent as: compact, spaced out with a final
\* newline, cut short before the closing brace, and with a comma too many
Layouts(ms) ==
    {<<LBrace>> \o Join(ms, <<>>) \o <<RBrace>>,
     <<LBrace, WS(" ")>> \o Join(ms, <<WS(" ")>>) \o <<WS(" "), RBrace, WS("\n")>>,
     <<LBrace>> \o Join(ms, <<>>),
     <<LBrace>> \o Join(ms, <<>>) \o <<Comma, RBrace>>}

\* the bytes clients send
WireInputs ==
    UNION {Layouts(ms) : ms \in SeqsUpTo(WireMembers, MaxMembers)}
    \cup {<<Lit(JNull)>>, <<Lit(JNum(1))>>}

\* the bytes handed to UnmarshalJSON on a value that already holds a manifest
RewireInputs ==
    {<<LBrace, Member("mediaType", JStr(MediaTypeImageIndex), "compact"), Comma,
       Member("config", JDesc(LayerA), "compact"), RBrace>>,
     <<LBrace, Member("mediaType", JStr(<<"wrong">>), "compact"), RBrace>>,
     <<LBrace>>}

\* the Content-Type headers that come with WireInputs
ManifestHeaders ==
    {<<>>, MediaTypeImageIndex,
     UpperImageIndex \o <<";", " ", "charset", "=", "utf-8">>,
     <<"application", "/", "application">>}

\* the bodies sent when it is the dispatch that is looked at
DispatchBodies ==
    {<<LBrace, Member("mediaType", JStr(MediaTypeImageIndex), "compact"), RBrace>>,
     <<LBrace, Member("mediaType", JStr(<<"wrong">>), "compact"), RBrace>>}

-----------------------------------------------------------------------------
(* The actions: one per operation.  A caller holds one manifest value (dm); *)
(* New drops it, and the operations that build a value from nothing run     *)
(* right after New.                                                         *)

Fresh == ret.op = "New"

\* m := new(DeserializedManifest)
New ==
    /\ dm' = ZeroDeserializedManifest
    /\ origin' = <<>>
    /\ ret' = [op |-> "New"]
    /\ UNCHANGED mappings

DoRegisterManifestSchema ==
    \E mediaType \in RegistryKeys, u \in UnmarshalFuncs :
        LET r == RegisterManifestSchema(mappings, mediaType, u) IN
        /\ mappings' = r.mappings
        /\ ret' = [op |-> "RegisterManifestSchema", mediaType |-> mediaType,
                   u |-> u, err |-> r.err]
        /\ UNCHANGED <<dm, origin>>

DoManifestMediaTypes ==
    /\ ret' = [op |-> "ManifestMediaTypes", mediaTypes |-> ManifestMediaTypes(mappings)]
    /\ UNCHANGED <<mappings, dm, origin>>

\* UnmarshalManifest(ctHeader, p); from is <<m>> when (ctHeader, p) is the
\* payload of FromStruct(m)
UnmarshalManifestCall(ctHeader, p, from) ==
    /\ ret' = [op |-> "UnmarshalManifest", ctHeader |-> ctHeader, p |-> p,
               from |-> from, out |-> UnmarshalManifest(mappings, ctHeader, p)]
    /\ dm' = IF ret'.out.res.ok THEN ret'.out.res.manifest
             ELSE ZeroDeserializedManifest
    /\ origin' = <<>>
    /\ UNCHANGED mappings

\* the HTTP layer hands a request to UnmarshalManifest
DoUnmarshalManifest(headers, bodies) ==
    /\ Fresh
    /\ \E ctHeader \in headers, p \in bodies : UnmarshalManifestCall(ctHeader, p, <<>>)

\* a caller hands what Payload just returned to UnmarshalManifest
DoUnmarshalPayload ==
    /\ ret.op = "Payload"
    /\ ret.err = NoErr
    /\ UnmarshalManifestCall(ret.mediaType, ret.payload, origin)

DoFromStruct ==
    /\ Fresh
    /\ \E m \in StructManifests :
        LET r == FromStruct(m) IN
        /\ dm' = r.dm
        /\ origin' = <<m>>
        /\ ret' = [op |-> "FromStruct", m |-> m, err |-> r.err]
    /\ UNCHANGED mappings

DoUnmarshalJSON ==
    /\ \E b \in (IF Fresh THEN WireInputs ELSE RewireInputs) :
        LET r == UnmarshalJSON(dm, b) IN
        /\ dm' = r.dm
        /\ ret' = [op |-> "UnmarshalJSON", b |-> b, err |-> r.err]
    /\ origin' = <<>>
    /\ UNCHANGED mappings

DoMarshalJSON ==
    LET r == MarshalJSON(dm) IN
    /\ ret' = [op |-> "MarshalJSON", bytes |-> r.bytes, err |-> r.err]
    /\ UNCHANGED <<mappings, dm, origin>>

DoPayload ==
    LET r == Payload(dm) IN
    /\ ret' = [op |-> "Payload", mediaType |-> r.mediaType, payload |-> r.payload,
               err |-> r.err]
    /\ UNCHANGED <<mappings, dm, origin>>

DoReferences ==
    /\ ret' = [op |-> "References", refs |-> References(dm.Manifest)]
    /\ UNCHANGED <<mappings, dm, origin>>

DoTarget ==
    /\ ret' = [op |-> "Target", target |-> Target(dm.Manifest)]
    /\ UNCHANGED <<mappings, dm, origin>>

\* the caller assigns an exported field: dm.Config = d
SetConfig ==
    /\ ~Fresh
    /\ \E d \in {ZeroDescriptor, ConfigA, LayerB} :
        /\ d # dm.Manifest.Config
        /\ dm' = [dm EXCEPT !.Manifest.Config = d]
        /\ ret' = [op |-> "SetConfig", d |-> d]
    /\ origin' = <<>>
    /\ UNCHANGED mappings

-----------------------------------------------------------------------------
(* Specifications. *)

\* the piddle schema in a process whose start-up has run: init has registered
\* schema2Func
Init ==
    /\ mappings = RegisterManifestSchema(EmptyMappings, MediaTypeImageIndex,
                                         "schema2Func").mappings
    /\ dm = ZeroDeserializedManifest
    /\ origin = <<>>
    /\ ret = [op |-> "New"]

Next ==
    \/ New
    \/ DoMarshalJSON
    \/ DoPayload
    \/ DoReferences
    \/ DoTarget
    \/ SetConfig
    \/ DoFromStruct
    \/ DoUnmarshalJSON
    \/ DoUnmarshalManifest(ManifestHeaders, WireInputs)
    \/ DoUnmarshalPayload

Spec == Init /\ [][Next]_vars

\* the registry from the empty map on: schemas register, requests are
\* dispatched
InitRegistry ==
    /\ mappings = EmptyMappings
    /\ dm = ZeroDeserializedManifest
    /\ origin = <<>>
    /\ ret = [op |-> "New"]

NextRegistry ==
    \/ New
    \/ DoRegisterManifestSchema
    \/ DoManifestMediaTypes
    \/ DoUnmarshalManifest(Headers, DispatchBodies)

SpecRegistry == InitRegistry /\ [][NextRegistry]_vars

-----------------------------------------------------------------------------
(* Properties of the registry, checked under SpecRegistry. *)

ErrUnsupported == "unsupported manifest media type and no default available"
ErrUninitialized == "JSON representation not initialized in DeserializedManifest"
ErrMismatch == "mediaType in manifest should be not"

\* a header mime.ParseMediaType accepts
Parses(h) == ParseMediaType(h).err = NoErr

\* C1: RegisterManifestSchema(mt, f2) with mt already bound returns an error
\* naming mt and leaves the registry as it was: no key added, removed or
\* rebound, mt still bound to the first function.  The default key "" included.
C1_DuplicateRegistrationFails ==
    [][(ret'.op = "RegisterManifestSchema" /\ ret'.mediaType \in DOMAIN mappings)
        => /\ ret'.err.kind # "nil"
           /\ ret'.err.a = ret'.mediaType
           /\ mappings' = mappings]_vars

\* a second registration of the default key, with another function, failed
C1_Witness ==
    /\ ret.op = "RegisterManifestSchema"
    /\ ret.mediaType = <<>>
    /\ ret.err # NoErr
    /\ mappings[<<>>] # ret.u

\* C5 as stated: with only the default registered every header, well formed
\* or not, is dispatched to the default function; with nothing registered every
\* input fails with the unsupported-media-type error.
C5_AnyHeaderFallsBack ==
    ret.op = "UnmarshalManifest" =>
        /\ DOMAIN mappings = {<<>>} => ret.out.fn = mappings[<<>>]
        /\ DOMAIN mappings = {} => ret.out.res.err.kind = ErrUnsupported

\* C5 amended: that holds of the headers that are empty or parse as a media
\* type; a header that does not parse makes UnmarshalManifest return the
\* parser's error, whatever is registered, and no function is called.
C5_ParsedHeaderFallsBack ==
    ret.op = "UnmarshalManifest" =>
        IF ret.ctHeader = <<>> \/ Parses(ret.ctHeader)
        THEN /\ DOMAIN mappings = {<<>>} =>
                    /\ ret.out.fn = mappings[<<>>]
                    /\ ret.out.res = CallUnmarshalFunc(mappings[<<>>], ret.p)
             /\ DOMAIN mappings = {} =>
                    /\ ret.out.fn = "none"
                    /\ ~ret.out.res.ok
                    /\ ret.out.res.err.kind = ErrUnsupported
        ELSE /\ ret.out.fn = "none"
             /\ ~ret.out.res.ok
             /\ ret.out.res.err.kind = "mime"

\* a header naming a type nobody registered went to the default function
C5_Witness ==
    /\ ret.op = "UnmarshalManifest"
    /\ DOMAIN mappings = {<<>>}
    /\ ret.ctHeader = <<"application", "/", "application">>
    /\ ret.out.fn = mappings[<<>>]
    /\ ret.out.res.ok

RECURSIVE CaseVariants(_)
\* the strings that differ from s in the case of letters only
CaseVariants(s) ==
    IF s = <<>> THEN {<<>>}
    ELSE {<<x>> \o r : x \in {y \in BaseLexemes : LowerLexeme(y) = LowerLexeme(Head(s))},
                       r \in CaseVariants(Tail(s))}

\* the headers that differ from h in the letter case of the media type or in
\* the parameters after ';' only
Variants(h) == {c \o q : c \in CaseVariants(CutBase(h)), q \in HeaderParams}

\* C6 as stated: two headers that differ only in the letter case of the media
\* type or in the parameters select the same function and return the same
\* result.
C6_VariantsResolveAlike ==
    ret.op = "UnmarshalManifest" =>
        \A h2 \in Variants(ret.ctHeader) :
            UnmarshalManifest(mappings, h2, ret.p) = ret.out

\* C6 amended: two headers that both parse as media types and differ only in
\* the letter case of the media type or in the parameters select the same
\* function and return the same result.
C6_ParsedVariantsResolveAlike ==
    (ret.op = "UnmarshalManifest" /\ ret.ctHeader # <<>> /\ Parses(ret.ctHeader)) =>
        \A h2 \in Variants(ret.ctHeader) :
            Parses(h2) => UnmarshalManifest(mappings, h2, ret.p) = ret.out

\* "Application/vnd...; charset=utf-8" reached the function registered for
\* the lower-case type
C6_Witness ==
    /\ ret.op = "UnmarshalManifest"
    /\ ret.ctHeader = UpperImageIndex \o <<";", " ", "charset", "=", "utf-8">>
    /\ DOMAIN mappings = {<<>>, MediaTypeImageIndex}
    /\ mappings[<<>>] # mappings[MediaTypeImageIndex]
    /\ ret.out.fn = mappings[MediaTypeImageIndex]

\* C10: a non-empty media type mt bound to f is reached by its own key:
\* UnmarshalManifest(mt, b) calls f, with or without a default registration.
C10_RegistrationReachable ==
    (/\ ret.op = "UnmarshalManifest"
     /\ ret.ctHeader # <<>>
     /\ ret.ctHeader \in DOMAIN mappings)
        => ret.out.fn = mappings[ret.ctHeader]

-----------------------------------------------------------------------------
(* Properties of the piddle schema, checked under Spec. *)

\* C2: when schema2Func, reached through UnmarshalManifest, parses p, the
\* Descriptor returned has the digest of p and the length of p, and the
\* Payload of the manifest returned digests to the same: the bytes received,
\* not the decoded fields marshalled again.
C2_DigestOfInput ==
    (ret.op = "UnmarshalManifest" /\ ret.out.fn = "schema2Func" /\ ret.out.res.ok)
        => /\ ret.out.res.desc.Digest = FromBytes(ret.p)
           /\ ret.out.res.desc.Size = Len(ret.p)
           /\ ret.out.res.desc.MediaType = MediaTypeImageIndex
           /\ Payload(dm).err = NoErr
           /\ FromBytes(Payload(dm).payload) = FromBytes(ret.p)

\* bytes were parsed that are not what marshalling their fields gives
C2_Witness ==
    /\ ret.op = "UnmarshalManifest"
    /\ ret.out.fn = "schema2Func"
    /\ ret.out.res.ok
    /\ Len(dm.Manifest.Layers) = 2
    /\ ret.p # jsonMarshalIndent(dm.Manifest)

\* C3: for a structure M that carries the schema's media type, the payload
\* of FromStruct(M), handed to UnmarshalManifest with the media type Payload
\* returned, is reconstructed: the call succeeds, the References are M's in
\* M's order, and the Payload bytes are the bytes handed in.
C3_RoundTrip ==
    (/\ ret.op = "UnmarshalManifest"
     /\ ret.from # <<>>
     /\ ret.from[1].MediaType = MediaTypeImageIndex)
        => /\ ret.out.res.ok
           /\ ret.out.res.err = NoErr
           /\ References(dm.Manifest) = References(ret.from[1])
           /\ Payload(dm).payload = ret.p
           /\ ret.p = jsonMarshalIndent(ret.from[1])

\* a structure with a config and two different layers went round
C3_Witness ==
    /\ ret.op = "UnmarshalManifest"
    /\ ret.from # <<>>
    /\ ret.from[1].MediaType = MediaTypeImageIndex
    /\ ret.from[1].Config = ConfigA
    /\ ret.from[1].Layers = <<LayerB, LayerA>>
    /\ ret.out.res.ok

\* C4: once dm holds canonical bytes, no operation on it (References, Target,
\* Payload, MarshalJSON, a further UnmarshalJSON, an assignment to a field)
\* changes what MarshalJSON and Payload return.
C4_CanonicalNeverChanges ==
    [][(/\ dm.canonical # <<>>
        /\ ret'.op \in {"References", "Target", "Payload", "MarshalJSON",
                        "UnmarshalJSON", "SetConfig"})
        => /\ MarshalJSON(dm').bytes = dm.canonical
           /\ Payload(dm').payload = dm.canonical]_vars

\* C7 as stated: MarshalJSON and Payload both return the canonical bytes when
\* there are some and both fail, returning no bytes, when there are none.
C7_BothSerializersFail ==
    ret.op \in {"MarshalJSON", "Payload"} =>
        LET bytes == IF ret.op = "Payload" THEN ret.payload ELSE ret.bytes IN
        IF Len(dm.canonical) > 0
        THEN bytes = dm.canonical /\ ret.err = NoErr
        ELSE bytes = <<>> /\ ret.err.kind = ErrUninitialized

\* C7 amended: MarshalJSON returns the canonical bytes when there are some and
\* fails with the uninitialized-manifest error, returning no bytes, when
\* there are none; Payload never fails: it returns the MediaType field and
\* the canonical bytes, which are empty when none were stored.
C7_MarshalFailsPayloadDoesNot ==
    /\ ret.op = "MarshalJSON" =>
            IF Len(dm.canonical) > 0
            THEN ret.bytes = dm.canonical /\ ret.err = NoErr
            ELSE ret.bytes = <<>> /\ ret.err.kind = ErrUninitialized
    /\ ret.op = "Payload" =>
            /\ ret.err = NoErr
            /\ ret.payload = dm.canonical
            /\ ret.mediaType = dm.Manifest.MediaType

\* MarshalJSON was called on a value that went through neither FromStruct
\* nor UnmarshalJSON
C7_Witness ==
    /\ ret.op = "MarshalJSON"
    /\ dm = ZeroDeserializedManifest
    /\ ret.err.kind = ErrUninitialized

\* the last string value a document gives the key mediaType; the empty string
\* when it gives none
RECURSIVE WireMediaType(_, _)
WireMediaType(b, i) ==
    IF i = 0 THEN <<>>
    ELSE IF b[i].t = "member" /\ b[i].key = "mediaType" /\ b[i].val.j = "str"
         THEN b[i].val.s
         ELSE WireMediaType(b, i - 1)

\* the JSON type the struct field of a key takes; "any" for an unknown key
FieldType(key) ==
    CASE key = "schemaVersion" -> "num"
      [] key = "mediaType" -> "str"
      [] key = "config" -> "obj"
      [] key = "layers" -> "arr"
      [] OTHER -> "any"

\* b is well-formed JSON that decodes into a Manifest: null, or an object
\* whose known keys have values of their field's JSON type, or null
Decodes(b) ==
    /\ Valid(b)
    /\ \A i \in 1..Len(b) :
        /\ b[i].t = "lit" => b[i].val.j = "null"
        /\ b[i].t = "member" =>
              \/ FieldType(b[i].key) = "any"
              \/ b[i].val.j \in {"null", FieldType(b[i].key)}

\* the wire bytes of the last construction, and its error
Constructed ==
    \/ ret.op = "UnmarshalJSON"
    \/ ret.op = "UnmarshalManifest" /\ ret.out.fn = "schema2Func"
WireBytes == IF ret.op = "UnmarshalJSON" THEN ret.b ELSE ret.p
WireErr == IF ret.op = "UnmarshalJSON" THEN ret.err ELSE ret.out.res.err

\* C8 as stated, for the documents that are a JSON object: on well-formed
\* JSON, construction fails with the mismatch error naming the expected and
\* the actual media type when the mediaType given differs from
\* MediaTypeImageIndex or is absent, and succeeds when it is
\* MediaTypeImageIndex; UnmarshalManifest returns no manifest with an error.
C8_WellFormedDecides ==
    (Constructed /\ Valid(WireBytes) /\ Strip(WireBytes)[1] = LBrace) =>
        /\ IF WireMediaType(WireBytes, Len(WireBytes)) = MediaTypeImageIndex
           THEN WireErr = NoErr
           ELSE WireErr = Err(ErrMismatch, MediaTypeImageIndex,
                              WireMediaType(WireBytes, Len(WireBytes)))
        /\ (ret.op = "UnmarshalManifest" /\ WireErr # NoErr) => ~ret.out.res.ok

\* C8 amended: that holds of the bytes that decode into the Manifest structure
\* (well-formed JSON whose known fields have values of the field's JSON type);
\* bytes that do not decode fail with the decoder's error.  With any error
\* UnmarshalManifest returns no manifest.
C8_DecodedDecides ==
    Constructed =>
        /\ IF Decodes(WireBytes)
           THEN IF WireMediaType(WireBytes, Len(WireBytes)) = MediaTypeImageIndex
                THEN WireErr = NoErr
                ELSE WireErr = Err(ErrMismatch, MediaTypeImageIndex,
                                   WireMediaType(WireBytes, Len(WireBytes)))
           ELSE WireErr.kind \in {"json: syntax error",
                                  "json: cannot unmarshal into Go struct field"}
        /\ (ret.op = "UnmarshalManifest" /\ WireErr # NoErr) =>
                ~ret.out.res.ok /\ dm = ZeroDeserializedManifest

\* UnmarshalManifest refused bytes whose mediaType is "wrong", naming both
C8_Witness ==
    /\ ret.op = "UnmarshalManifest"
    /\ ret.out.fn = "schema2Func"
    /\ Decodes(ret.p)
    /\ ret.out.res.err = Err(ErrMismatch, MediaTypeImageIndex, <<"wrong">>)
    /\ ~ret.out.res.ok

\* C9: References returns the Config and then the Layers in their order,
\* one more element than there are layers, and leaves the manifest as it was.
C9_ReferencesOrder ==
    [][ret'.op = "References"
        => /\ Len(ret'.refs) = Len(dm.Manifest.Layers) + 1
           /\ ret'.refs[1] = dm.Manifest.Config
           /\ \A i \in 1..Len(dm.Manifest.Layers) :
                ret'.refs[i + 1] = dm.Manifest.Layers[i]
           /\ dm' = dm]_vars

\* References was called on a manifest with a config and two different layers
C9_Witness ==
    /\ ret.op = "References"
    /\ dm.Manifest.Config = ConfigA
    /\ dm.Manifest.Layers = <<LayerA, LayerB>>
    /\ ret.refs = <<ConfigA, LayerA, LayerB>>

====
